---- MODULE Spec2Model ----
(***************************************************************************)
(* State-machine model of downloader.py: the item ledger (sqlite table     *)
(* downloads), the checkpoint file progress.json, the rate-limited GET     *)
(* deviantart_get, the item processor save_deviation and the run           *)
(* controller main.  The remote service, the credential endpoint, the     *)
(* file system and the tagger are the environment: every response they     *)
(* can give is a nondeterministic choice.                                  *)
(***************************************************************************)
EXTENDS Integers, Sequences, FiniteSets, TLC

\* ---------------------------------------------------------------- bounds
MaxArtists == 2     \* length of the followed-artists list the service holds
MaxPages   == 2     \* page responses the service gives per enumeration
MaxBatch   == 2     \* entries in one gallery page

\* ------------------------------------------------- configuration (l.18-20)
SLEEP_TIME       == 1
MAX_RETRIES      == 5
RATE_LIMIT_SLEEP == 30

\* ------------------------------------------------------------ JSON values
\* A JSON value read with dict.get: an integer, null, or a missing key.
JInt(n)  == [k |-> "int",     v |-> n]
JNone    == [k |-> "null",    v |-> 0]
JMissing == [k |-> "missing", v |-> 0]

\* dict.get(key, default): the default only replaces a MISSING key; a key
\* that is present with the value null yields None.
DictGet(x, default) == IF x.k = "missing" THEN default ELSE x

\* "\n".join(tags): the tag names with a newline between neighbours.
RECURSIVE JoinNL(_)
JoinNL(tags) ==
    IF Len(tags) = 0 THEN <<>>
    ELSE IF Len(tags) = 1 THEN <<tags[1]>>
    ELSE <<tags[1], "\n">> \o JoinNL(Tail(tags))

\* ------------------------------------------------------------- the service
\* Followed artists, by user name (the service lists them in this order).
ArtistNames == 1..MaxArtists

\* A key that a JSON object does not carry (string-valued fields).
NoKey == "<missing>"

\* Gallery entries the service can return.  The same deviationid can come
\* back with another title and premium marker (the entry changed between
\* two requests).
Deviations ==
    { [deviationid |-> "d1", title |-> "t1", url |-> "u1",
       premium_content |-> FALSE, premium_folder_data |-> FALSE,
       is_downloadable |-> "true", content |-> "src"],
      [deviationid |-> "d1", title |-> NoKey, url |-> "u1",
       premium_content |-> TRUE, premium_folder_data |-> FALSE,
       is_downloadable |-> NoKey, content |-> NoKey] }

DeviationIds == {d.deviationid : d \in Deviations}

\* A gallery entry: a normal one with an image, or a premium one.
Entry(id, premium) ==
    IF premium
    THEN [deviationid |-> id, title |-> NoKey, url |-> "u1",
          premium_content |-> TRUE, premium_folder_data |-> FALSE,
          is_downloadable |-> NoKey, content |-> NoKey]
    ELSE [deviationid |-> id, title |-> "t1", url |-> "u1",
          premium_content |-> FALSE, premium_folder_data |-> FALSE,
          is_downloadable |-> "true", content |-> "src"]

\* A gallery entry whose content has no src.
EntryNoSrc(id) ==
    [deviationid |-> id, title |-> "t1", url |-> "u1",
     premium_content |-> FALSE, premium_folder_data |-> FALSE,
     is_downloadable |-> "true", content |-> "nosrc"]

\* What the service holds: the friends list, and per artist the pages of
\* the gallery.
Service1 ==
    [artists |-> <<1, 2>>,
     galleries |-> <<  << <<Entry("a1", FALSE), Entry("a2", FALSE)>>,
                          <<Entry("a3", FALSE)>> >>,
                       << <<Entry("b1", TRUE)>> >>  >>]
Service2 ==
    [artists |-> <<1, 2>>,
     galleries |-> <<  << >>,
                       << <<Entry("b1", TRUE), Entry("b2", FALSE)>> >>  >>]
Service3 ==
    [artists |-> <<1>>,
     galleries |-> <<  << <<EntryNoSrc("a1")>>, <<Entry("a2", FALSE)>> >>,
                       << >>  >>]
Service4 ==
    [artists |-> <<>>, galleries |-> << << >>, << >> >>]

\* The services, by name, and the one the process talks to.
Services == {"s1", "s2", "s3", "s4"}

Holdings(name) ==
    CASE name = "s1" -> Service1
      [] name = "s2" -> Service2
      [] name = "s3" -> Service3
      [] name = "s4" -> Service4

\* Identities and titles the ledger functions are called with when they
\* are exercised alone.
LedgerIds    == {"d1", "d2"}
LedgerTitles == {"t1", "t2"}

\* Tag lists the metadata endpoint can return.
TagLists == {<<>>, <<"x", "y">>}

\* next_offset values of a page response: an integer, null, or no key.
ServerOffsets == {JMissing, JNone, JInt(1)}

Batches == UNION {[1..n -> Deviations] : n \in 0..MaxBatch}

\* Bearer tokens: none yet, the one get_access_token returned at startup,
\* and any one it returned for a refresh later.
NoToken        == "none"
StartupToken   == "startup"
RefreshedToken == "refreshed"

\* Outcomes of one attempt of deviantart_get that are not a success.
FailedAttempts == {"429", "401", "401-authfail", "not-ok", "exception"}

\* ------------------------------------------------------------------ state
VARIABLES
    \* durable state
    db,             \* "none": no downloads table; "legacy": table without
                    \* the is_premium column; "current": table with it
    ledger,         \* rows of the downloads table
    progressFile,   \* progress.json
    sidecars,       \* <deviationid>.txt files written
    assets,         \* <deviationid>.jpg files written
    \* configuration of the running process
    FORCE_RECHECK, DOWNLOAD_SUBSCRIPTIONS,
    \* main
    pc, token, artists, start_artist_idx, start_offset, idx, has_more,
    current_offset,
    results,        \* the deviations of the page that the loop of l.347 has
                    \* not finished; the first one is its variable deviation
    \* get_followed_artists
    offset,
    \* save_deviation
    tags,
    \* deviantart_get
    retries, dgToken,
    \* history variables
    pageNo,         \* page responses received in the current enumeration
    served,         \* next_offset of the last gallery page received
    failedWalks,    \* some artist's walk ended in the except branch
    knownAtEntry,   \* the item had a row when save_deviation was entered
    firstCall,      \* per identity, the first mark_* call made for it
                    \* (kept when the ledger functions are exercised alone)
    trace,          \* the failed attempts of a deviantart_get call and the
                    \* sleep that followed each (kept when the function is
                    \* exercised alone)
    pendingAtKill,  \* the identities located at or after the point where
                    \* the process was last killed during a walk (kept when
                    \* the service's galleries are fixed)
    service         \* the name of the service the process talks to
                    \* (read when the service's galleries are fixed)

disk   == <<db, ledger, progressFile, sidecars, assets>>
config == <<FORCE_RECHECK, DOWNLOAD_SUBSCRIPTIONS>>
mainv  == <<token, artists, start_artist_idx, start_offset, idx, has_more,
            current_offset>>
dgv    == <<retries, dgToken>>
itemv  == <<results, tags, knownAtEntry>>
vars   == <<disk, config, pc, mainv, offset, itemv, dgv, pageNo, served,
            failedWalks, firstCall, trace, pendingAtKill, service>>
history == <<firstCall, trace, pendingAtKill, service>>

\* ------------------------------------------------------------- the ledger
Row(deviation_id, artist, title, url, tagtext, is_premium) ==
    [deviationid |-> deviation_id, artist |-> artist, title |-> title,
     url |-> url, tags |-> tagtext, is_premium |-> is_premium]

\* A row of a table created before the is_premium column existed.
LegacyRow(deviation_id, artist, title, url, tagtext) ==
    [deviationid |-> deviation_id, artist |-> artist, title |-> title,
     url |-> url, tags |-> tagtext]

\* INSERT OR IGNORE: deviationid is the primary key.
InsertOrIgnore(row) ==
    IF \E r \in ledger : r.deviationid = row.deviationid
    THEN ledger
    ELSE ledger \cup {row}

\* The table holds a row for the identity.
HasRow(deviation_id) ==
    \E r \in ledger : r.deviationid = deviation_id

\* is_downloaded with the lookup narrowed to flagged rows.
is_downloaded_flagged_only(deviation_id) ==
    \E r \in ledger : r.deviationid = deviation_id /\ r.is_premium = 1

\* is_downloaded that also takes a sidecar on disk for a download.
is_downloaded_or_sidecar(deviation_id) ==
    \/ \E r \in ledger : r.deviationid = deviation_id
    \/ deviation_id \in sidecars

is_downloaded(deviation_id) ==
    \E r \in ledger : r.deviationid = deviation_id

is_subscription(deviation_id) ==
    \E r \in ledger : r.deviationid = deviation_id /\ r.is_premium = 1

\* The table after mark_subscription / mark_downloaded.
mark_subscription(deviation_id, artist, title, url) ==
    InsertOrIgnore(Row(deviation_id, artist, title, url, <<>>, 1))

\* mark_downloaded written with INSERT OR REPLACE.
mark_downloaded_replace(deviation_id, artist, title, url, taglist) ==
    {r \in ledger : r.deviationid # deviation_id}
        \cup {Row(deviation_id, artist, title, url, JoinNL(taglist), 0)}

mark_downloaded(deviation_id, artist, title, url, taglist) ==
    InsertOrIgnore(Row(deviation_id, artist, title, url, JoinNL(taglist), 0))

\* --------------------------------------------------------- the checkpoint
\* progress.json: whether it exists, whether json.load can parse it, and
\* the two values it holds when it can.
NoProgressFile ==
    [exists |-> FALSE, parses |-> FALSE,
     last_artist_index |-> 0, last_offset |-> JInt(0)]

\* The file after open(PROGRESS_FILE, "w") truncated it and the write failed.
TruncatedProgressFile ==
    [exists |-> TRUE, parses |-> FALSE,
     last_artist_index |-> 0, last_offset |-> JInt(0)]

\* save_progress that writes the artist index and drops the offset.
save_progress_no_offset(last_artist_index, last_offset) ==
    { [exists |-> TRUE, parses |-> TRUE,
       last_artist_index |-> last_artist_index, last_offset |-> JInt(0)],
      TruncatedProgressFile }

\* The files save_progress can leave: the one json.dump wrote (None is
\* written as null), or, when the write raised, the truncated one; the
\* exception is logged (l.184-185).  When open itself raises the old file
\* stays: nothing reads the file later in the run, and the next run finds
\* what it finds after a kill before this call, which Restart covers.
save_progress(last_artist_index, last_offset) ==
    { [exists |-> TRUE, parses |-> TRUE,
       last_artist_index |-> last_artist_index, last_offset |-> last_offset],
      TruncatedProgressFile }

\* l.170-177: the defaults when FORCE_RECHECK is set, the file is missing,
\* or json.load raises.
load_progress ==
    IF FORCE_RECHECK \/ ~progressFile.exists \/ ~progressFile.parses
    THEN [last_artist_index |-> 0, last_offset |-> JInt(0)]
    ELSE [last_artist_index |-> progressFile.last_artist_index,
          last_offset |-> progressFile.last_offset]

\* offset_to_use without the test of l.334.
offset_to_use_always(i, start_idx, start_off) == start_off

\* main, l.334
offset_to_use(i, start_idx, start_off) ==
    IF i = start_idx THEN start_off ELSE JInt(0)

\* ------------------------------------------------------- save_deviation
\* l.213: deviation.get("title", "untitled")
TitleOf(deviation) ==
    IF deviation.title = NoKey THEN "untitled" ELSE deviation.title

\* l.227-233.  content is NoKey (the key is missing, so {} is used), "null",
\* "empty" ({}), "nosrc" (a dict without src) or "src".
\* is_premium from the two markers alone.
is_premium_markers_only(deviation) ==
    \/ deviation.premium_content
    \/ deviation.premium_folder_data

is_premium(deviation) ==
    \/ deviation.premium_content
    \/ deviation.premium_folder_data
    \/ deviation.is_downloadable = "false"
    \/ deviation.content \in {NoKey, "null", "empty"}
    \/ deviation.content = "nosrc"

\* ------------------------------------------------------- deviantart_get
\* The loop condition with one pass more.
LoopCond_inclusive(n) == n <= MAX_RETRIES

\* l.132: the loop condition
LoopCond(n) == n < MAX_RETRIES

\* wait_time without the linear factor.
wait_time_flat(n) == RATE_LIMIT_SLEEP

\* l.138: the sleep after a 429 on the attempt made with retries = n
wait_time(n) == RATE_LIMIT_SLEEP * (n + 1)

\* Where deviantart_get is running: under get_followed_artists, under the
\* gallery loop of main, under save_deviation, or called on its own.
DgPcs == {"friends_get", "page_get", "meta_get", "call"}

\* A call starts: the parameter token is the caller's token.
DgEnter(tok) ==
    /\ retries' = 0
    /\ dgToken' = tok

\* A call has ended: its locals are gone.
DgLeave ==
    /\ retries' = 0
    /\ dgToken' = NoToken

\* ---------------------------------------------------------------- Init
\* A process starts: the files as they may be before the first run, the
\* configuration, and nothing in memory.
Boot ==
    /\ db \in {"none", "legacy"}
    /\ ledger = IF db = "none" THEN {}
                 ELSE {LegacyRow("d0", 1, "t0", "u0", <<"x">>)}
    /\ progressFile = NoProgressFile
    /\ sidecars = {}
    /\ assets = {}
    /\ FORCE_RECHECK \in BOOLEAN
    /\ DOWNLOAD_SUBSCRIPTIONS \in BOOLEAN
    /\ pc = "init_db"
    /\ token = NoToken
    /\ artists = <<>>
    /\ start_artist_idx = 0
    /\ start_offset = JInt(0)
    /\ idx = 0
    /\ has_more = FALSE
    /\ current_offset = JInt(0)
    /\ results = <<>>
    /\ offset = JInt(0)
    /\ tags = <<>>
    /\ retries = 0
    /\ dgToken = NoToken
    /\ pageNo = 0
    /\ served = JMissing
    /\ failedWalks = FALSE
    /\ knownAtEntry = FALSE
    /\ firstCall = [d \in LedgerIds |-> <<>>]
    /\ trace = <<>>
    /\ pendingAtKill = {}

Init == Boot /\ service = "s1"

\* ----------------------------------------------------------- init_db
\* The upgrade done by creating the table anew.
add_is_premium_column_recreate ==
    CASE db = "none"    -> [raised |-> TRUE,  db |-> db, rows |-> ledger]
      [] db = "legacy"  -> [raised |-> FALSE, db |-> "current", rows |-> {}]
      [] db = "current" -> [raised |-> FALSE, db |-> db, rows |-> ledger]

\* l.46-58: ALTER TABLE downloads ADD COLUMN is_premium INTEGER DEFAULT 0.
\* "raised" is the OperationalError that is not "duplicate column name".
add_is_premium_column_if_missing ==
    CASE db = "none"    -> [raised |-> TRUE,  db |-> db, rows |-> ledger]
      [] db = "legacy"  -> [raised |-> FALSE, db |-> "current",
                            rows |-> {Row(r.deviationid, r.artist, r.title,
                                          r.url, r.tags, 0) : r \in ledger}]
      [] db = "current" -> [raised |-> FALSE, db |-> db, rows |-> ledger]

\* The process has ended: what it held in memory is gone.
ProcessEnds ==
    /\ token' = NoToken
    /\ artists' = <<>>
    /\ start_artist_idx' = 0
    /\ start_offset' = JInt(0)
    /\ idx' = 0
    /\ has_more' = FALSE
    /\ current_offset' = JInt(0)
    /\ results' = <<>>
    /\ offset' = JInt(0)
    /\ tags' = <<>>
    /\ knownAtEntry' = FALSE
    /\ DgLeave
    /\ pageNo' = 0
    /\ served' = JMissing

\* l.60-78: conn = init_db() at import; an exception ends the process.
InitDb ==
    /\ pc = "init_db"
    /\ LET a == add_is_premium_column_if_missing IN
         /\ db' = a.db
         /\ ledger' = a.rows
         /\ pc' = IF a.raised THEN "Fatal" ELSE "auth"
    /\ UNCHANGED <<progressFile, sidecars, assets, config, mainv, offset,
                   itemv, dgv, pageNo, served, failedWalks, history>>

\* l.321: token = get_access_token(); l.322 enters get_followed_artists
\* and its first deviantart_get call.
Authenticate ==
    /\ pc = "auth"
    /\ token' = StartupToken
    /\ pc' = "friends_get"
    /\ offset' = JInt(0)
    /\ artists' = <<>>
    /\ pageNo' = 0
    /\ DgEnter(token')
    /\ UNCHANGED <<disk, config, start_artist_idx, start_offset, idx, has_more,
                   current_offset, itemv, served, failedWalks, history>>

\* l.122: raise_for_status in get_access_token at startup: uncaught.
AuthenticateFails ==
    /\ pc = "auth"
    /\ pc' = "Fatal"
    /\ ProcessEnds
    /\ UNCHANGED <<disk, config, failedWalks, history>>

\* ------------------------------------------- deviantart_get, one attempt
\* l.132-161: one pass of the loop that does not return.  Every pass sends
\* one GET.  "401" is a 401 followed by a successful get_access_token;
\* "401-authfail" is a 401 whose get_access_token raises HTTPError, which
\* the except clause of l.158 catches; "exception" is a RequestException of
\* requests.get.
DgAttemptFails(outcome) ==
    /\ pc \in DgPcs
    /\ LoopCond(retries)
    /\ retries' = retries + 1
    /\ dgToken' = IF outcome = "401" THEN RefreshedToken ELSE dgToken
    /\ UNCHANGED <<disk, config, pc, mainv, offset, itemv, pageNo,
                   served, failedWalks, firstCall, pendingAtKill, service>>

\* The time a pass that does not return sleeps: l.138-140 after a 429,
\* none after a 401 whose refresh succeeded (l.146-148), l.161 after an
\* exception, l.153 after any other status.
sleep_after(outcome, n) ==
    CASE outcome = "429" -> wait_time(n)
      [] outcome = "401" -> 0
      [] outcome \in {"401-authfail", "exception"} -> SLEEP_TIME
      [] outcome = "not-ok" -> SLEEP_TIME

DgAttempt ==
    /\ \E outcome \in FailedAttempts : DgAttemptFails(outcome)
    /\ UNCHANGED trace

\* ------------------------------------------------ get_followed_artists
\* The part of the service's list a page can carry: the names that follow
\* those already received.
FriendBatches ==
    {SubSeq([i \in 1..MaxArtists |-> i], Len(artists) + 1, Len(artists) + n) :
        n \in 0..(MaxArtists - Len(artists))}

\* next_offset values of a page of the friends list.
FriendOffsets == {JMissing, JInt(1)}

\* l.198-205: deviantart_get returns a page of the friends list.
FriendsPageWith(batch, more, next) ==
    /\ pc = "friends_get"
    /\ LoopCond(retries)
    /\ more => pageNo + 1 < MaxPages
    /\ artists' = artists \o batch
    /\ pageNo' = pageNo + 1
    /\ IF more
       THEN /\ offset' = DictGet(next, JInt(0))
            /\ pc' = "friends_get"
            /\ DgEnter(token)
       ELSE /\ offset' = JInt(0)
            /\ pc' = "load"
            /\ DgLeave
    /\ UNCHANGED <<disk, config, token, start_artist_idx, start_offset, idx, has_more,
                   current_offset, itemv, served, failedWalks,
                   history>>

\* The service may answer with any page.
FriendsPage ==
    \E batch \in FriendBatches, more \in BOOLEAN, next \in FriendOffsets :
        FriendsPageWith(batch, more, next)

\* l.163 under l.198 and l.322: the RuntimeError is not caught.
FriendsRaise ==
    /\ pc = "friends_get"
    /\ ~LoopCond(retries)
    /\ pc' = "Fatal"
    /\ ProcessEnds
    /\ UNCHANGED <<disk, config, failedWalks, history>>

\* ------------------------------------------------------------------ main
\* l.325-327
LoadProgress ==
    /\ pc = "load"
    /\ LET progress == load_progress IN
         /\ start_artist_idx' = progress.last_artist_index
         /\ start_offset' = progress.last_offset
    /\ idx' = start_artist_idx'
    /\ pc' = "for"
    /\ UNCHANGED <<disk, config, token, artists, has_more, current_offset,
                   offset, itemv, dgv, pageNo, served, failedWalks,
                   history>>

\* l.329-337: the next artist of artists[start_artist_idx:], or the end of
\* the loop.
ForArtist ==
    /\ pc = "for"
    /\ served' = JMissing
    /\ IF idx < Len(artists)
       THEN /\ current_offset' = offset_to_use(idx, start_artist_idx, start_offset)
            /\ has_more' = TRUE
            /\ pageNo' = 0
            /\ pc' = "while"
       ELSE /\ pc' = "final"
            /\ UNCHANGED <<current_offset, has_more, pageNo>>
    /\ UNCHANGED <<disk, config, token, artists, start_artist_idx, start_offset, idx,
                   offset, itemv, dgv, failedWalks, history>>

\* l.357-358 and the next iteration of l.329: the walk of artists[idx]
\* ended without an exception.
WalkEnds ==
    /\ start_offset' = JInt(0)
    /\ idx' = idx + 1
    /\ pc' = "for"

\* The walk without the try of l.332: the exception ends the process.
WalkExcept_uncaught ==
    /\ failedWalks' = TRUE
    /\ idx' = idx
    /\ pc' = "Fatal"
    /\ UNCHANGED start_offset

\* l.360-361: an exception of the walk is caught; l.358 is skipped.
WalkExcept ==
    /\ failedWalks' = TRUE
    /\ idx' = idx + 1
    /\ pc' = "for"
    /\ UNCHANGED start_offset

\* The loop of l.339 as `while True`.
While_true ==
    /\ pc = "while"
    /\ pc' = "page_get"
    /\ DgEnter(token)
    /\ UNCHANGED <<start_offset, idx>>
    /\ UNCHANGED <<disk, config, token, artists, start_artist_idx, has_more,
                   current_offset, offset, itemv, pageNo,
                   served, failedWalks, history>>

\* l.339-341: the loop test, and the call of deviantart_get.
While ==
    /\ pc = "while"
    /\ IF has_more
       THEN /\ pc' = "page_get"
            /\ DgEnter(token)
            /\ UNCHANGED <<start_offset, idx>>
       ELSE /\ WalkEnds
            /\ UNCHANGED dgv
    /\ UNCHANGED <<disk, config, token, artists, start_artist_idx, has_more,
                   current_offset, offset, itemv, pageNo,
                   served, failedWalks, history>>

\* The deviation save_deviation is working on, and its artist.
deviation == Head(results)
artist == artists[idx + 1]

\* l.341-347: deviantart_get returns a gallery page, data.  Its batch is
\* results (l.342).  An empty batch leaves the loop (l.343-345); otherwise
\* the first deviation is offered.  Nothing reads has_more and next_offset
\* of data before l.351-352, and the model draws them there; for an empty
\* batch, which never gets there, next_offset is drawn here.
GalleryPageWith(batch) ==
    /\ pc = "page_get"
    /\ LoopCond(retries)
    /\ pageNo' = pageNo + 1
    /\ IF batch = <<>>
       THEN /\ WalkEnds
            /\ served' \in ServerOffsets
            /\ UNCHANGED results
       ELSE /\ results' = batch
            /\ pc' = "item"
            /\ UNCHANGED <<start_offset, idx, served>>
    /\ DgLeave
    /\ UNCHANGED <<disk, config, token, artists, start_artist_idx, has_more,
                   current_offset, offset, tags, knownAtEntry,
                   failedWalks, history>>

\* The service may answer with any batch.
GalleryPage == \E batch \in Batches : GalleryPageWith(batch)

\* l.163 under l.341: the RuntimeError reaches the except of l.360.
GalleryRaise ==
    /\ pc = "page_get"
    /\ ~LoopCond(retries)
    /\ WalkExcept
    /\ DgLeave
    /\ UNCHANGED <<disk, config, token, artists, start_artist_idx, has_more,
                   current_offset, offset, itemv, pageNo,
                   served, history>>

\* save_deviation returns: l.349 and the next deviation of the page, or
\* the end of the for loop of l.347.
ItemReturn ==
    /\ tags' = <<>>
    /\ knownAtEntry' = FALSE
    /\ results' = Tail(results)
    /\ pc' = IF results' # <<>> THEN "item" ELSE "save_progress"

\* l.212-257: the ledger lookups, the classification, mark_subscription,
\* and the call of deviantart_get for the metadata.
SaveDeviationStart ==
    /\ pc = "item"
    /\ LET id == deviation.deviationid
           known == is_subscription(id) \/ is_downloaded(id)
           premium == is_premium(deviation) IN
         /\ ledger' = IF ~known /\ premium
                      THEN mark_subscription(id, artist, TitleOf(deviation),
                                             deviation.url)
                      ELSE ledger
         /\ IF known \/ (premium /\ ~DOWNLOAD_SUBSCRIPTIONS)
            THEN /\ ItemReturn
                 /\ UNCHANGED dgv
            ELSE /\ knownAtEntry' = HasRow(id)
                 /\ pc' = "meta_get"
                 /\ DgEnter(token)
                 /\ UNCHANGED <<results, tags>>
    /\ UNCHANGED <<db, progressFile, sidecars, assets, config, mainv, offset,
                   pageNo, served, failedWalks, history>>

\* l.257-264: the metadata arrives; tags are its tag names.
MetadataReturns ==
    /\ pc = "meta_get"
    /\ LoopCond(retries)
    /\ tags' \in TagLists
    /\ pc' = "sidecar"
    /\ DgLeave
    /\ UNCHANGED <<disk, config, mainv, offset, results, knownAtEntry,
                   pageNo, served, failedWalks, history>>

\* l.258-262: the RuntimeError is caught; metadata = {} and tags = [].
MetadataRaise ==
    /\ pc = "meta_get"
    /\ ~LoopCond(retries)
    /\ tags' = <<>>
    /\ pc' = "sidecar"
    /\ DgLeave
    /\ UNCHANGED <<disk, config, mainv, offset, results, knownAtEntry,
                   pageNo, served, failedWalks, history>>

\* l.266-276: the directory and the sidecar file are written.
WriteSidecar ==
    /\ pc = "sidecar"
    /\ sidecars' = sidecars \cup {deviation.deviationid}
    /\ pc' = "asset"
    /\ UNCHANGED <<db, ledger, progressFile, assets, config, mainv, offset,
                   itemv, dgv, pageNo, served, failedWalks, history>>

\* l.267, l.272: os.makedirs or open raises OSError.  Neither is inside a
\* try: the exception leaves save_deviation and the for loop of l.347 and
\* reaches the except of l.360.
WriteSidecarFails ==
    /\ pc = "sidecar"
    /\ WalkExcept
    /\ results' = <<>>
    /\ tags' = <<>>
    /\ knownAtEntry' = FALSE
    /\ UNCHANGED <<disk, config, token, artists, start_artist_idx, has_more,
                   current_offset, offset, dgv, pageNo, served,
                   history>>

\* l.279-285: the asset is fetched and written, or the failure (a missing
\* content["src"] included) is logged.
FetchAsset ==
    /\ pc = "asset"
    /\ \/ /\ deviation.content = "src"
          /\ assets' = assets \cup {deviation.deviationid}
       \/ UNCHANGED assets
    /\ pc' = "tagger"
    /\ UNCHANGED <<db, ledger, progressFile, sidecars, config, mainv, offset,
                   itemv, dgv, pageNo, served, failedWalks, history>>

\* l.287-311: the tagger is called on the asset file; every failure is
\* caught.  The text it appends to the sidecar is not part of the state.
Tagger ==
    /\ pc = "tagger"
    /\ pc' = "mark"
    /\ UNCHANGED <<disk, config, mainv, offset, itemv, dgv, pageNo,
                   served, failedWalks, history>>

\* l.313: mark_downloaded.
MarkDownloaded ==
    /\ pc = "mark"
    /\ ledger' = mark_downloaded(deviation.deviationid, artist,
                                 TitleOf(deviation), deviation.url, tags)
    /\ pc' = "return"
    /\ UNCHANGED <<db, progressFile, sidecars, assets, config, mainv, offset,
                   itemv, dgv, pageNo, served, failedWalks, history>>

\* l.314: save_deviation returns after the log line.
SaveDeviationReturns ==
    /\ pc = "return"
    /\ ItemReturn
    /\ UNCHANGED <<disk, config, mainv, offset, dgv, pageNo, served,
                   failedWalks, history>>

\* l.351-355: the page is done; has_more and next_offset of data are read
\* and the checkpoint is written.
SaveProgressWith(more, next) ==
    /\ pc = "save_progress"
    /\ more => pageNo < MaxPages
    /\ served' = next
    /\ has_more' = more
    /\ current_offset' = DictGet(next, JInt(0))
    /\ progressFile' \in save_progress(idx, current_offset')
    /\ pc' = "while"
    /\ UNCHANGED <<db, ledger, sidecars, assets, config, token, artists,
                   start_artist_idx, start_offset, idx, offset, itemv, dgv,
                   pageNo, failedWalks, history>>

\* The service may answer with any has_more and next_offset.
SaveProgress ==
    \E more \in BOOLEAN, next \in ServerOffsets : SaveProgressWith(more, next)

\* The end of main without l.364.
Finish_without_save ==
    /\ pc = "final"
    /\ pc' = "Done"
    /\ ProcessEnds
    /\ UNCHANGED <<disk, config, failedWalks, history>>

\* l.363-364: the for loop is over.
Finish ==
    /\ pc = "final"
    /\ progressFile' \in save_progress(0, JInt(0))
    /\ pc' = "Done"
    /\ ProcessEnds
    /\ UNCHANGED <<db, ledger, sidecars, assets, config, failedWalks,
                   history>>

\* The process ends (it finished, died of an exception, or was killed at
\* any point) and is started again: a new configuration is read, the
\* files stay.
Reboot ==
    /\ FORCE_RECHECK' \in BOOLEAN
    /\ DOWNLOAD_SUBSCRIPTIONS' \in BOOLEAN
    /\ pc' = "init_db"
    /\ ProcessEnds
    /\ failedWalks' = FALSE
    /\ UNCHANGED disk

Restart == Reboot /\ UNCHANGED history

Run ==
    \/ InitDb
    \/ Authenticate
    \/ AuthenticateFails
    \/ DgAttempt
    \/ FriendsPage
    \/ FriendsRaise
    \/ LoadProgress
    \/ ForArtist
    \/ While
    \/ GalleryPage
    \/ GalleryRaise
    \/ SaveDeviationStart
    \/ MetadataReturns
    \/ MetadataRaise
    \/ WriteSidecar
    \/ WriteSidecarFails
    \/ FetchAsset
    \/ Tagger
    \/ MarkDownloaded
    \/ SaveDeviationReturns
    \/ SaveProgress
    \/ Finish

Next == Run \/ Restart

Spec == Init /\ [][Next]_vars

\* ------------------------------------------- the ledger interface alone
\* Any sequence of mark_downloaded and mark_subscription calls on an empty
\* table.

LedgerInit ==
    /\ db = "current"
    /\ ledger = {}
    /\ progressFile = NoProgressFile
    /\ sidecars = {}
    /\ assets = {}
    /\ FORCE_RECHECK = FALSE
    /\ DOWNLOAD_SUBSCRIPTIONS = FALSE
    /\ pc = "ledger"
    /\ token = NoToken
    /\ artists = <<>>
    /\ start_artist_idx = 0
    /\ start_offset = JInt(0)
    /\ idx = 0
    /\ has_more = FALSE
    /\ current_offset = JInt(0)
    /\ results = <<>>
    /\ offset = JInt(0)
    /\ tags = <<>>
    /\ retries = 0
    /\ dgToken = NoToken
    /\ pageNo = 0
    /\ served = JMissing
    /\ failedWalks = FALSE
    /\ knownAtEntry = FALSE
    /\ firstCall = [d \in LedgerIds |-> <<>>]
    /\ trace = <<>>
    /\ pendingAtKill = {}
    /\ service = "s1"

\* The call is remembered if it is the first one for its identity.
NoteCall(deviation_id, call) ==
    firstCall' = IF firstCall[deviation_id] = <<>>
                 THEN [firstCall EXCEPT ![deviation_id] = <<call>>]
                 ELSE firstCall

CallMarkDownloaded ==
    /\ pc = "ledger"
    /\ \E id \in LedgerIds, a \in ArtistNames, t \in LedgerTitles,
          tl \in TagLists :
         /\ ledger' = mark_downloaded(id, a, t, "u", tl)
         /\ NoteCall(id, [artist |-> a, title |-> t, url |-> "u",
                          tags |-> tl, restricted |-> FALSE])
    /\ UNCHANGED <<db, progressFile, sidecars, assets, config, pc, mainv,
                   offset, itemv, dgv, pageNo, served, failedWalks, trace,
                   pendingAtKill, service>>

CallMarkSubscription ==
    /\ pc = "ledger"
    /\ \E id \in LedgerIds, a \in ArtistNames, t \in LedgerTitles :
         /\ ledger' = mark_subscription(id, a, t, "u")
         /\ NoteCall(id, [artist |-> a, title |-> t, url |-> "u",
                          tags |-> <<>>, restricted |-> TRUE])
    /\ UNCHANGED <<db, progressFile, sidecars, assets, config, pc, mainv,
                   offset, itemv, dgv, pageNo, served, failedWalks, trace,
                   pendingAtKill, service>>

LedgerNext == CallMarkDownloaded \/ CallMarkSubscription

LedgerSpec == LedgerInit /\ [][LedgerNext]_vars

\* ---------------------------------------------- deviantart_get alone
\* One call of deviantart_get with the startup token, against any sequence
\* of responses; trace keeps the failed attempts and their sleeps.

DgInit ==
    /\ db = "current"
    /\ ledger = {}
    /\ progressFile = NoProgressFile
    /\ sidecars = {}
    /\ assets = {}
    /\ FORCE_RECHECK = FALSE
    /\ DOWNLOAD_SUBSCRIPTIONS = FALSE
    /\ pc = "call"
    /\ token = StartupToken
    /\ artists = <<>>
    /\ start_artist_idx = 0
    /\ start_offset = JInt(0)
    /\ idx = 0
    /\ has_more = FALSE
    /\ current_offset = JInt(0)
    /\ results = <<>>
    /\ offset = JInt(0)
    /\ tags = <<>>
    /\ retries = 0
    /\ dgToken = token
    /\ pageNo = 0
    /\ served = JMissing
    /\ failedWalks = FALSE
    /\ knownAtEntry = FALSE
    /\ firstCall = [d \in LedgerIds |-> <<>>]
    /\ trace = <<>>
    /\ pendingAtKill = {}
    /\ service = "s1"

\* A pass of the loop that does not return, and what it slept.
CallAttempt ==
    /\ pc = "call"
    /\ \E outcome \in FailedAttempts :
         /\ DgAttemptFails(outcome)
         /\ trace' = Append(trace, [outcome |-> outcome,
                                    slept |-> sleep_after(outcome, retries)])

\* l.156: return r.json()
CallReturns ==
    /\ pc = "call"
    /\ LoopCond(retries)
    /\ pc' = "returned"
    /\ UNCHANGED <<disk, config, mainv, offset, itemv, dgv, pageNo, served,
                   failedWalks, history>>

\* l.163: raise RuntimeError
CallRaises ==
    /\ pc = "call"
    /\ ~LoopCond(retries)
    /\ pc' = "raised"
    /\ UNCHANGED <<disk, config, mainv, offset, itemv, dgv, pageNo, served,
                   failedWalks, history>>

DgNext == CallAttempt \/ CallReturns \/ CallRaises

DgSpec == DgInit /\ [][DgNext]_vars

\* ------------------------------------------------ a service that is fixed
\* The runs of a process that is killed and started again against a
\* service whose friends list and galleries stay the same, and that answers
\* every request at the first attempt; writing a sidecar may fail.

\* The friends list of the service.
GalleryArtists == Holdings(service).artists

EmptyPage ==
    [results |-> <<>>, has_more |-> FALSE, next_offset |-> JNone]

\* The response to the gallery request of l.340-341 for artist a with the
\* parameter offset off.  requests leaves a parameter whose value is None
\* out of the query, and the service then starts at 0.  The service counts
\* offsets in pages; the last page has has_more false and next_offset null.
Gallery(a, off) ==
    LET o     == IF off.k = "int" THEN off.v ELSE 0
        pages == Holdings(service).galleries[a] IN
    IF o + 1 \in 1..Len(pages)
    THEN [results |-> pages[o + 1],
          has_more |-> o + 1 < Len(pages),
          next_offset |-> IF o + 1 < Len(pages) THEN JInt(o + 1) ELSE JNone]
    ELSE EmptyPage

\* The identities of a batch.
IdsOf(batch) == {batch[k].deviationid : k \in 1..Len(batch)}

\* The identities on the page of artist a at offset off and on the pages
\* that follow it (at most n of them).
RECURSIVE IdsFrom(_, _, _)
IdsFrom(a, off, n) ==
    LET page == Gallery(a, off) IN
    IF n = 0 THEN {}
    ELSE IdsOf(page.results)
           \cup (IF page.has_more /\ page.results # <<>>
                 THEN IdsFrom(a, DictGet(page.next_offset, JInt(0)), n - 1)
                 ELSE {})

\* The identities of the artists of index >= i (names i + 1 and up).
IdsOfArtistsFrom(i) ==
    UNION {IdsFrom(GalleryArtists[k], JInt(0), MaxPages) :
             k \in {k \in 1..Len(GalleryArtists) : k > i}}

\* The identities located at or after the point the run has reached: the
\* deviations of the page not finished, the pages after it, and the
\* artists after this one.
IdsAhead ==
    CASE pc \in {"item", "meta_get", "sidecar", "asset", "tagger", "mark",
                 "return"} ->
              IdsOf(results)
                \cup (LET page == Gallery(artist, current_offset) IN
                      IF page.has_more
                      THEN IdsFrom(artist, DictGet(page.next_offset, JInt(0)), MaxPages)
                      ELSE {})
                \cup IdsOfArtistsFrom(idx + 1)
      [] pc = "save_progress" ->
              (LET page == Gallery(artist, current_offset) IN
               IF page.has_more
               THEN IdsFrom(artist, DictGet(page.next_offset, JInt(0)), MaxPages)
               ELSE {})
                \cup IdsOfArtistsFrom(idx + 1)
      [] pc \in {"while", "page_get"} ->
              (IF has_more THEN IdsFrom(artist, current_offset, MaxPages) ELSE {})
                \cup IdsOfArtistsFrom(idx + 1)
      [] pc = "for" ->
              IF idx < Len(artists)
              THEN IdsFrom(artists[idx + 1],
                           offset_to_use(idx, start_artist_idx, start_offset),
                           MaxPages)
                     \cup IdsOfArtistsFrom(idx + 1)
              ELSE {}
      [] OTHER -> {}

ResumeInit == Boot /\ db = "legacy" /\ service \in Services

\* The pages of the friends list carry the service's list, in order, and
\* the last page completes it.
FixedFriendsPage ==
    /\ FriendsPage
    /\ Len(artists') <= Len(GalleryArtists)
    /\ artists' = SubSeq(GalleryArtists, 1, Len(artists'))
    /\ pc' = "load" => artists' = GalleryArtists

FixedGalleryPage ==
    GalleryPageWith(Gallery(artist, current_offset).results)

\* The metadata of a deviation stays the same.
FixedMetadataReturns ==
    /\ MetadataReturns
    /\ tags' = <<"x", "y">>

\* l.351-352 read the page that l.341 fetched at current_offset.
FixedSaveProgress ==
    LET page == Gallery(artist, current_offset) IN
    SaveProgressWith(page.has_more, page.next_offset)

\* The process is killed at any point and started again with the
\* configuration it had.  A kill before the walk has begun leaves the point
\* of the last kill as it was.
Kill ==
    /\ Reboot
    /\ UNCHANGED config
    /\ pendingAtKill' =
         IF pc \in {"init_db", "auth", "friends_get", "load", "Fatal"}
         THEN pendingAtKill
         ELSE IdsAhead
    /\ UNCHANGED <<firstCall, trace, service>>

ResumeNext ==
    \/ InitDb
    \/ Authenticate
    \/ FixedFriendsPage
    \/ LoadProgress
    \/ ForArtist
    \/ While
    \/ FixedGalleryPage
    \/ SaveDeviationStart
    \/ FixedMetadataReturns
    \/ WriteSidecar
    \/ FetchAsset
    \/ Tagger
    \/ MarkDownloaded
    \/ SaveDeviationReturns
    \/ FixedSaveProgress
    \/ WriteSidecarFails
    \/ Finish
    \/ Kill

ResumeSpec == ResumeInit /\ [][ResumeNext]_vars

\* ------------------------------------------------ a run without failures
\* One run that finds a downloads table and no checkpoint, over one of the
\* services, in which every request is answered at the first attempt and
\* the sidecars and the checkpoint are written.

FullRunInit ==
    /\ Boot
    /\ db = "legacy"
    /\ service \in Services

SaveProgressWritten ==
    /\ FixedSaveProgress
    /\ progressFile'.parses

FinishWritten ==
    /\ Finish
    /\ progressFile'.parses

FullRunNext ==
    \/ InitDb
    \/ Authenticate
    \/ FixedFriendsPage
    \/ LoadProgress
    \/ ForArtist
    \/ While
    \/ FixedGalleryPage
    \/ SaveDeviationStart
    \/ MetadataReturns
    \/ WriteSidecar
    \/ FetchAsset
    \/ Tagger
    \/ MarkDownloaded
    \/ SaveDeviationReturns
    \/ SaveProgressWritten
    \/ FinishWritten

\* main runs to its end: a step that can be taken is taken.
FullRunSpec == FullRunInit /\ [][FullRunNext]_vars /\ WF_vars(FullRunNext)

\* ------------------------------------------------------- init_db alone
\* The start of a process on a store of any content: no table, a table
\* without the is_premium column, or a table with it.

\* deviationid is the primary key: a table has one row per identity.
Tables(rows) ==
    {t \in SUBSET rows :
        \A r1, r2 \in t : r1.deviationid = r2.deviationid => r1 = r2}

LegacyTables ==
    Tables({LegacyRow(id, 1, t, "u1", tl) :
              id \in LedgerIds, t \in LedgerTitles, tl \in TagLists})

CurrentTables ==
    Tables({Row(id, 1, t, "u1", tl, p) :
              id \in LedgerIds, t \in LedgerTitles, tl \in TagLists,
              p \in {0, 1}})

OpenInit ==
    /\ db \in {"none", "legacy", "current"}
    /\ ledger \in CASE db = "none"    -> {{}}
                    [] db = "legacy"  -> LegacyTables
                    [] db = "current" -> CurrentTables
    /\ progressFile = NoProgressFile
    /\ sidecars = {}
    /\ assets = {}
    /\ FORCE_RECHECK = FALSE
    /\ DOWNLOAD_SUBSCRIPTIONS = FALSE
    /\ pc = "init_db"
    /\ token = NoToken
    /\ artists = <<>>
    /\ start_artist_idx = 0
    /\ start_offset = JInt(0)
    /\ idx = 0
    /\ has_more = FALSE
    /\ current_offset = JInt(0)
    /\ results = <<>>
    /\ offset = JInt(0)
    /\ tags = <<>>
    /\ retries = 0
    /\ dgToken = NoToken
    /\ pageNo = 0
    /\ served = JMissing
    /\ failedWalks = FALSE
    /\ knownAtEntry = FALSE
    /\ firstCall = [d \in LedgerIds |-> <<>>]
    /\ trace = <<>>
    /\ pendingAtKill = {}
    /\ service = "s1"

OpenNext == InitDb \/ Authenticate

OpenSpec == OpenInit /\ [][OpenNext]_vars

\* ------------------------------------------------ save_deviation alone
\* One call of save_deviation on a deviation of any shape that has no row,
\* with the service answering the metadata request at the first attempt.

\* The shapes of a gallery entry, in the fields save_deviation reads.
Payloads ==
    [deviationid : {"d1"}, title : {"t1", NoKey}, url : {"u1"},
     premium_content : BOOLEAN, premium_folder_data : BOOLEAN,
     is_downloadable : {"true", "false", NoKey},
     content : {NoKey, "null", "empty", "nosrc", "src"}]

ItemInit ==
    /\ db = "current"
    /\ ledger = {}
    /\ progressFile = NoProgressFile
    /\ sidecars = {}
    /\ assets = {}
    /\ FORCE_RECHECK = FALSE
    /\ DOWNLOAD_SUBSCRIPTIONS \in BOOLEAN
    /\ pc = "item"
    /\ token = StartupToken
    /\ artists = <<1>>
    /\ start_artist_idx = 0
    /\ start_offset = JInt(0)
    /\ idx = 0
    /\ has_more = TRUE
    /\ current_offset = JInt(0)
    /\ results \in {<<d>> : d \in Payloads}
    /\ offset = JInt(0)
    /\ tags = <<>>
    /\ retries = 0
    /\ dgToken = NoToken
    /\ pageNo = 1
    /\ served = JMissing
    /\ failedWalks = FALSE
    /\ knownAtEntry = FALSE
    /\ firstCall = [d \in LedgerIds |-> <<>>]
    /\ trace = <<>>
    /\ pendingAtKill = {}
    /\ service = "s1"

ItemNext ==
    \/ SaveDeviationStart
    \/ MetadataReturns
    \/ WriteSidecar
    \/ FetchAsset
    \/ Tagger
    \/ MarkDownloaded
    \/ SaveDeviationReturns

ItemSpec == ItemInit /\ [][ItemNext]_vars

\* ================================================================ claims
FetchPcs == {"meta_get", "sidecar", "asset", "tagger", "mark", "return"}
WalkPcs  == FetchPcs \cup {"while", "page_get", "item", "save_progress"}
Normal   == CHOOSE d \in Deviations : ~is_premium(d)
Premium  == CHOOSE d \in Deviations : is_premium(d)
Restricted(id) ==
    db = "current" /\ \E r \in ledger : r.deviationid = id /\ r.is_premium = 1

\* C1 -- deduplication: when save_deviation is offered a deviation whose
\* identity has a row (flagged or not), the step returns to the page loop:
\* no metadata request is started and the ledger, the sidecars and the
\* assets are unchanged.  So the fetch steps of save_deviation are only
\* reached for a deviation that had no row when it was offered.
C1_Dedup ==
    /\ [][(pc = "item" /\ HasRow(deviation.deviationid) /\ pc' # "init_db")
            => /\ pc' \in {"item", "save_progress"}
               /\ UNCHANGED <<ledger, sidecars, assets>>]_vars
    /\ [](pc \in FetchPcs => ~knownAtEntry)

\* The second page of a walk is done.  Every entry of the first page left
\* a row for the identity (the walk would have ended otherwise), so every
\* entry of the second page was offered while its identity had a row.
C1_Witness ==
    /\ pc = "save_progress"
    /\ pageNo = 2
    /\ start_artist_idx = 1
    /\ HasRow("d1")

\* The checkpoint file holding (i, o).
Checkpoint(i, o) ==
    [exists |-> TRUE, parses |-> TRUE,
     last_artist_index |-> i, last_offset |-> o]

\* The checkpoint a starting run resumes from.
Resumable ==
    ~FORCE_RECHECK /\ \E i \in 0..MaxArtists, o \in ServerOffsets \cup {JInt(0)} :
                        progressFile = Checkpoint(i, o)
ResumeIndex ==
    IF Resumable THEN progressFile.last_artist_index ELSE 0
ResumeOffset ==
    IF Resumable THEN progressFile.last_offset ELSE JInt(0)

\* C2 -- resume: the run takes (ci, off) from the persisted checkpoint, or
\* (0, 0) when FORCE_RECHECK is set or no checkpoint can be read, and keeps
\* ci; it
\* never works on an artist of index < ci; the first gallery request for
\* artist ci carries offset off (the file still holds (ci, off) then) and
\* the first one for any later artist carries offset 0.
C2_Resume ==
    /\ [][(pc = "load" /\ pc' = "for")
            => /\ start_artist_idx' = ResumeIndex
               /\ start_offset' = ResumeOffset
               /\ idx' = ResumeIndex]_vars
    /\ [][(pc \in WalkPcs \cup {"for"} /\ pc' \in WalkPcs \cup {"for"})
            => start_artist_idx' = start_artist_idx]_vars
    /\ [](pc \in WalkPcs => idx >= start_artist_idx)
    /\ []((pc = "page_get" /\ pageNo = 0)
            => IF idx = start_artist_idx
               THEN /\ start_artist_idx = ResumeIndex
                    /\ current_offset = ResumeOffset
               ELSE current_offset = JInt(0))

\* A run resumed from the checkpoint (1, 1) is about to send its first
\* gallery request.
C2_Witness ==
    /\ pc = "page_get"
    /\ pageNo = 0
    /\ retries = 0
    /\ ~FORCE_RECHECK
    /\ progressFile = Checkpoint(1, JInt(1))
    /\ idx = 1
    /\ current_offset = JInt(1)

\* C3 -- idempotent ledger: after any sequence of mark_downloaded and
\* mark_subscription calls, an identity no call was made for has no row,
\* and any other identity has exactly one row, whose artist, title, url,
\* tags and is_premium are those of the first call made for it; a call
\* that is not the first one for its identity leaves the ledger unchanged.
C3_FirstCallWins ==
    /\ [](\A id \in LedgerIds :
            LET rows == {r \in ledger : r.deviationid = id} IN
            IF firstCall[id] = <<>>
            THEN rows = {}
            ELSE LET c == firstCall[id][1] IN
                 /\ Cardinality(rows) = 1
                 /\ \A r \in rows :
                      /\ r.artist = c.artist
                      /\ r.title = c.title
                      /\ r.url = c.url
                      /\ r.tags = JoinNL(c.tags)
                      /\ r.is_premium = IF c.restricted THEN 1 ELSE 0)
    /\ [][firstCall' = firstCall => ledger' = ledger]_vars

\* Both identities have a row, one from mark_subscription and one from
\* mark_downloaded with two tags.
C3_Witness ==
    /\ pc = "ledger"
    /\ \E r \in ledger : r.deviationid = "d1" /\ r.is_premium = 1
    /\ \E r \in ledger : r.deviationid = "d2" /\ r.tags = <<"x", "\n", "y">>

\* C4 -- restricted write-once: an identity that is_subscription reports
\* stays reported by it after every step, a process restart included.
C4_RestrictedForever ==
    [][\A id \in DeviationIds : Restricted(id) => Restricted(id)']_vars

\* A premium entry was flagged and, under DOWNLOAD_SUBSCRIPTIONS, fetched;
\* mark_downloaded has just been called for it with two tags, and its row
\* is still flagged.
C4_Witness ==
    /\ pc = "return"
    /\ deviation = Premium
    /\ DOWNLOAD_SUBSCRIPTIONS
    /\ tags = <<"x", "y">>
    /\ "d1" \in sidecars
    /\ Restricted("d1")

\* Every response of the call so far was a 429.
All429 == \A k \in 1..Len(trace) : trace[k].outcome = "429"

\* C5 (as amended) -- a deviantart_get call whose every response is 429
\* sends exactly MAX_RETRIES requests and then raises the RuntimeError of
\* l.163; the sleep that follows the k-th request, the last one included,
\* is RATE_LIMIT_SLEEP * k.
C5_Backoff ==
    All429 =>
        /\ Len(trace) <= MAX_RETRIES
        /\ \A k \in 1..Len(trace) : trace[k].slept = RATE_LIMIT_SLEEP * k
        /\ pc = "raised" => Len(trace) = MAX_RETRIES
        /\ (pc = "call" /\ Len(trace) = MAX_RETRIES)
              => (ENABLED CallRaises /\ ~ENABLED CallAttempt
                    /\ ~ENABLED CallReturns)
        /\ (pc = "call" /\ Len(trace) < MAX_RETRIES)
              => (ENABLED CallAttempt /\ ~ENABLED CallRaises)

\* The call has raised after MAX_RETRIES responses, all of them 429.
C5_Witness ==
    /\ pc = "raised"
    /\ All429
    /\ Len(trace) = MAX_RETRIES
    /\ trace[MAX_RETRIES].slept = RATE_LIMIT_SLEEP * MAX_RETRIES

\* C5 (as stated) -- ... and the sleep that precedes the k-th request is
\* RATE_LIMIT_SLEEP * k (no sleep precedes the first request).
C5_WaitBeforeAttempt ==
    All429 =>
        /\ Len(trace) <= MAX_RETRIES
        /\ pc = "raised" => Len(trace) = MAX_RETRIES
        /\ \A k \in 2..Len(trace) :
              trace[k - 1].slept = RATE_LIMIT_SLEEP * k

\* C6 -- token refresh: when a deviantart_get call that got one 401, made
\* one get_access_token call and one more request returns, the caller's
\* token is the refreshed token.
C6_CallerHoldsNewToken ==
    [][(pc \in DgPcs /\ retries = 1 /\ dgToken = RefreshedToken
          /\ retries' = 0 /\ pc' # "init_db")
        => token' = RefreshedToken]_vars

\* C7 -- per-artist isolation: a walk that fails (the page fetch exhausts
\* its retries, or the sidecar cannot be written) is followed by the next
\* artist of the list; that artist's first gallery request carries offset
\* 0; a run with a failed walk never dies and is never stuck before Done.
C7_Isolation ==
    /\ [][(pc' # "init_db"
             /\ \/ pc = "page_get" /\ retries >= MAX_RETRIES
                \/ pc = "sidecar" /\ pc' # "asset")
            => (pc' = "for" /\ idx' = idx + 1 /\ failedWalks')]_vars
    /\ []((pc = "page_get" /\ pageNo = 0 /\ idx > start_artist_idx)
            => current_offset = JInt(0))
    /\ [](failedWalks => (pc # "Fatal" /\ (pc = "Done" \/ ENABLED Run)))

\* The walk of artist 0, resumed at offset 1, has failed; the first request
\* for artist 1 is about to be sent.
C7_Witness ==
    /\ pc = "page_get"
    /\ pageNo = 0
    /\ retries = 0
    /\ failedWalks
    /\ idx = 1
    /\ start_artist_idx = 0
    /\ start_offset = JInt(1)

\* The next_offset of a page, 0 if the page carries none.
OffsetOf(next) == IF next.k = "missing" THEN JInt(0) ELSE next

\* C8 -- checkpoint reset: a run in which the walk of some artist failed
\* does not end with the checkpoint (0, 0).
C8_NoResetAfterFailure ==
    (pc = "Done" /\ failedWalks) => progressFile # Checkpoint(0, JInt(0))

\* C9 (as amended) -- when the last deviation of a page of artist i has
\* been processed, save_progress is called with (i, next_offset of that
\* page, 0 if it carries none): unless the write fails (the file is then
\* a truncated one) the checkpoint holds that pair, and the file is not
\* touched again before the next gallery request is sent or the walk of
\* the artist ends; this holds for every page with a non-empty batch, the
\* last page of an artist included.
C9_Checkpoint ==
    /\ [][(pc = "save_progress" /\ pc' = "while")
            => progressFile' \in {Checkpoint(idx, OffsetOf(served')),
                                  TruncatedProgressFile}]_vars
    /\ [][(pc = "while" /\ pc' \in {"page_get", "for"})
            => UNCHANGED progressFile]_vars

\* The last page of artist 1 came with next_offset null and is done.
C9_Witness ==
    /\ pc = "while"
    /\ ~has_more
    /\ pageNo = 2
    /\ idx = 1
    /\ served = JNone
    /\ progressFile = Checkpoint(1, JNone)

\* C9 (as stated) -- ... for every page, a page with an empty batch
\* included.
C9_EveryPage ==
    /\ C9_Checkpoint
    /\ [][(pc = "page_get" /\ pageNo' = pageNo + 1 /\ pc' = "for")
            => progressFile' = Checkpoint(idx, OffsetOf(served'))]_vars

\* C10 -- item-level containment: once save_deviation is past the
\* classification, it is only left with a row for the deviation in the
\* ledger, and towards the next deviation of the page or the end of the
\* page.
C10_Containment ==
    [][(pc \in FetchPcs /\ pc' \notin FetchPcs /\ pc' # "init_db")
        => /\ pc' \in {"item", "save_progress"}
           /\ \E r \in ledger' : r.deviationid = deviation.deviationid]_vars

\* C11 -- credential failure is fatal: once get_access_token has failed
\* during the refresh that follows a 401, the deviantart_get call is over
\* (it is no longer in its loop, so it sends no further request) and it
\* has not returned a body; the failure was the last pass of the call.
C11_RefreshFailureAborts ==
    \A k \in 1..Len(trace) :
        trace[k].outcome = "401-authfail"
            => (k = Len(trace) /\ pc = "raised")

\* C12 -- crash and resume: a run that follows a kill fetches the page of
\* the checkpoint first; a deviation it is offered that has no row is
\* worked on in full (its metadata is requested, or it is recorded as
\* restricted); and when a run after a kill reaches Done with no failed
\* walk, every deviation that was at or after the point of the kill has
\* a row.
C12_ResumeComplete ==
    /\ [](pc = "Done" /\ ~failedWalks
            => \A id \in pendingAtKill : HasRow(id))
    /\ [](pc = "page_get" /\ pageNo = 0 /\ idx = start_artist_idx
            => current_offset = load_progress.last_offset)
    /\ [][pc = "item" /\ ~HasRow(deviation.deviationid) /\ pc' # "init_db"
            => \/ pc' = "meta_get"
               \/ /\ is_premium(deviation)
                  /\ ~DOWNLOAD_SUBSCRIPTIONS
                  /\ \E r \in ledger' : /\ r.deviationid = deviation.deviationid
                                        /\ r.is_premium = 1]_vars

\* A run killed while it worked on a2, the second deviation of the first
\* page, after the sidecar of a2 was written; a later run reached Done and
\* every deviation from a2 on has a row.
C12_Witness ==
    /\ pc = "Done"
    /\ ~failedWalks
    /\ pendingAtKill = {"a2", "a3", "b1"}
    /\ \A id \in {"a1", "a2", "a3", "b1"} : HasRow(id)
    /\ "a2" \in sidecars

\* C13 -- an empty batch stops the walk: when a page of the friends list
\* arrives with no name on it, get_followed_artists returns its list
\* (no further page is requested); when a gallery page arrives with no
\* deviation on it, the walk of the artist ends without an exception and
\* the for loop goes on.
C13_EmptyBatchStops ==
    [][/\ (pc = "friends_get" /\ pageNo' = pageNo + 1 /\ artists' = artists)
            => pc' = "load"
       /\ (pc = "page_get" /\ pageNo' = pageNo + 1 /\ results' = <<>>)
            => (pc' = "for" /\ failedWalks' = failedWalks)]_vars

\* C14 -- page exhaustion: when a page with at least one entry arrives and
\* its has_more is false, no further page of that enumeration is
\* requested: get_followed_artists returns its list; the gallery loop,
\* after the checkpoint, leaves the while loop without a request and the
\* for loop moves to the next artist.  A gallery page is only requested
\* while has_more is true.
C14_LastPageStops ==
    /\ [][/\ (/\ pc = "friends_get"
              /\ \E batch \in FriendBatches \ {<<>>}, next \in FriendOffsets :
                    FriendsPageWith(batch, FALSE, next))
               => pc' = "load"
          /\ (/\ pc = "save_progress"
              /\ \E next \in ServerOffsets : SaveProgressWith(FALSE, next))
               => (pc' = "while" /\ ~has_more')
          /\ (pc = "while" /\ ~has_more /\ pc' # "init_db")
               => (pc' = "for" /\ idx' = idx + 1 /\ dgv' = dgv)]_vars
    /\ [](pc = "page_get" => has_more)

\* The walk of the first artist ended after one page that had a deviation
\* on it and has_more false; the for loop is at the second artist.
C14_Witness ==
    /\ pc = "for"
    /\ idx = 1
    /\ Len(artists) = 2
    /\ pageNo = 1
    /\ ~has_more
    /\ ~failedWalks
    /\ progressFile = Checkpoint(0, JInt(0))

\* What the classification rule names: a premium marker, the mark
\* "not downloadable", no src in the content, or no content.
NamedRestricted(d) ==
    \/ d.premium_content \/ d.premium_folder_data
    \/ d.is_downloadable = "false"
    \/ d.content = "nosrc"
    \/ d.content \in {NoKey, "null", "empty"}

\* C15 -- classification: save_deviation, offered a deviation without a
\* row, records it as restricted exactly when the rule names it; the row
\* it writes then carries the flag and no tags; with
\* DOWNLOAD_SUBSCRIPTIONS off the call returns at once (no metadata
\* request, no sidecar, no asset), and no sidecar or asset is ever written
\* while the flag is off; a deviation the rule does not name gets no row at
\* this step and its metadata is requested.
C15_Classification ==
    /\ [][(pc = "item" /\ ~HasRow(deviation.deviationid))
            => LET d == deviation
                   id == d.deviationid IN
               IF NamedRestricted(d)
               THEN /\ ledger' = {Row(id, artist, TitleOf(d), d.url, <<>>, 1)}
                    /\ ~DOWNLOAD_SUBSCRIPTIONS
                         => /\ pc' = "save_progress"
                            /\ UNCHANGED <<sidecars, assets, dgv>>
                    /\ DOWNLOAD_SUBSCRIPTIONS => pc' = "meta_get"
               ELSE /\ ledger' = ledger
                    /\ pc' = "meta_get"]_vars
    /\ []((~DOWNLOAD_SUBSCRIPTIONS /\ Restricted("d1"))
            => (sidecars = {} /\ assets = {} /\ pc = "save_progress"))

\* save_deviation returned for a deviation it recorded as restricted, with
\* DOWNLOAD_SUBSCRIPTIONS off: the row is flagged and has no tags, and
\* there is no sidecar and no asset.
C15_Witness ==
    /\ pc = "save_progress"
    /\ ~DOWNLOAD_SUBSCRIPTIONS
    /\ \E r \in ledger : r.deviationid = "d1" /\ r.is_premium = 1 /\ r.tags = <<>>
    /\ sidecars = {}
    /\ assets = {}

\* The entries on the pages of the galleries of the service's artists.
EntriesOf(sv) ==
    UNION {UNION {{page[k] : k \in 1..Len(page)} :
                    page \in {sv.galleries[a][n] :
                                n \in 1..Len(sv.galleries[a])}} :
             a \in {sv.artists[j] : j \in 1..Len(sv.artists)}}

\* C16 -- a run without failures: the run reaches Done; then every entry
\* of every page that the classification rule does not name has a row
\* with the flag off and a sidecar, every entry the rule names has a row
\* with the flag on, and the checkpoint is (0, 0).
C16_FullRun ==
    /\ <>(pc = "Done")
    /\ [](pc = "Done" =>
            /\ \A e \in EntriesOf(Holdings(service)) :
                 IF NamedRestricted(e)
                 THEN \E r \in ledger : /\ r.deviationid = e.deviationid
                                        /\ r.is_premium = 1
                 ELSE /\ \E r \in ledger : /\ r.deviationid = e.deviationid
                                           /\ r.is_premium = 0
                      /\ e.deviationid \in sidecars
            /\ progressFile = Checkpoint(0, JInt(0)))

\* The run over the first service is done: a1, a2 and a3 are recorded
\* with the flag off and have a sidecar, b1 is recorded with the flag on.
C16_Witness ==
    /\ pc = "Done"
    /\ service = "s1"
    /\ \A id \in {"a1", "a2", "a3"} :
         /\ id \in sidecars
         /\ \E r \in ledger : r.deviationid = id /\ r.is_premium = 0
    /\ \E r \in ledger : r.deviationid = "b1" /\ r.is_premium = 1
    /\ progressFile = Checkpoint(0, JInt(0))

\* The fields a row had before the is_premium column existed.
OldFields(r) == <<r.deviationid, r.artist, r.title, r.url, r.tags>>

\* C17 -- schema upgrade: init_db on a table without the is_premium column
\* succeeds and yields a table with the column that holds the same rows,
\* field by field, each with is_premium = 0 (so is_subscription is false
\* for each); init_db on a table that has the column succeeds and leaves
\* the table as it is.
C17_Upgrade ==
    [][(pc = "init_db" /\ pc' # "init_db" /\ db # "none")
         => /\ pc' = "auth"
            /\ db' = "current"
            /\ IF db = "legacy"
               THEN /\ {OldFields(r) : r \in ledger'}
                         = {OldFields(r) : r \in ledger}
                    /\ Cardinality(ledger') = Cardinality(ledger)
                    /\ \A r \in ledger' : r.is_premium = 0
               ELSE ledger' = ledger]_vars

\* A table without the column that held two rows has been opened.
C17_Witness ==
    /\ pc = "auth"
    /\ db = "current"
    /\ ledger = {Row("d1", 1, "t1", "u1", <<"x", "y">>, 0),
                 Row("d2", 1, "t2", "u1", <<>>, 0)}

\* C20 -- a fresh store: init_db on a store without a downloads table
\* succeeds: the table exists afterwards with the is_premium column and
\* the process goes on to get_access_token.
C20_FreshStoreOpens ==
    [][(pc = "init_db" /\ db = "none" /\ pc' # "init_db")
         => (pc' = "auth" /\ db' = "current")]_vars

\* C18 -- checkpoint well-formedness: whenever progress.json holds a
\* document, its last_artist_index and its last_offset are non-negative
\* integers.
C18_WellFormed ==
    (progressFile.exists /\ progressFile.parses)
        => /\ progressFile.last_artist_index \in Nat
           /\ progressFile.last_offset.k = "int"
           /\ progressFile.last_offset.v \in Nat

\* C19 -- the loop of deviantart_get is bounded: whatever the responses,
\* every pass that does not return (429, 401, another status, an
\* exception) adds one to retries; there are at most MAX_RETRIES passes;
\* a pass that gets a success returns the body, and nothing (no sleep, no
\* request) follows in the call; no sleep follows a 401 whose refresh
\* succeeded; while retries < MAX_RETRIES the call can send another
\* request and cannot raise; with retries = MAX_RETRIES it sends none and
\* raises the RuntimeError of l.163.
C19_BoundedLoop ==
    /\ Len(trace) <= MAX_RETRIES
    /\ retries = Len(trace)
    /\ pc = "returned" => Len(trace) < MAX_RETRIES
    /\ pc = "raised" => Len(trace) = MAX_RETRIES
    /\ \A k \in 1..Len(trace) :
         trace[k].outcome = "401" => trace[k].slept = 0
    /\ (pc = "call" /\ retries < MAX_RETRIES)
          => (ENABLED CallAttempt /\ ENABLED CallReturns /\ ~ENABLED CallRaises)
    /\ (pc = "call" /\ retries = MAX_RETRIES)
          => (ENABLED CallRaises /\ ~ENABLED CallAttempt /\ ~ENABLED CallReturns)
    /\ pc \in {"returned", "raised"} => ~ENABLED DgNext

\* The call returned the body at its fifth request, after a 401, a 429,
\* another status and an exception.
C19_Witness ==
    /\ pc = "returned"
    /\ Len(trace) = MAX_RETRIES - 1
    /\ trace[1].outcome = "401" /\ trace[1].slept = 0
    /\ trace[2].outcome = "429"
    /\ trace[3].outcome = "not-ok"
    /\ trace[4].outcome = "exception"

====
